---- MODULE Spec2Model ----
(***************************************************************************)
(* OPTIMADE materials-data server: the tool surface                        *)
(* (fetch_structures_by_formula, fetch_structures_by_elements,             *)
(* fetch_structures_with_filter, fetch_structures_advanced) and the        *)
(* materializer save_structures of Optimade_Server/utils.py.               *)
(*                                                                         *)
(* Text is modelled as a sequence of one-character strings, so that        *)
(* strip/replace/slicing are computed and not assumed.  A file path is the *)
(* tuple <<folder, name, index, suffix>> for the text                      *)
(* "{folder}/{name}_{index}.{suffix}": the index is a decimal number, so   *)
(* the last '_' of the file name separates name and index and the tuple    *)
(* determines the text and the text the tuple.                             *)
(***************************************************************************)
EXTENDS Integers, Sequences, FiniteSets, TLC

\* ------------------------------------------------------------------ bounds
\* Most provider entries in one aggregated response (SpecSave).
MaxEntries == 2
\* Most records in one aggregated response, over all its providers (SpecSave).
MaxTotal == 3
\* Largest per-provider cap (max_results) a caller passes; caps are 1..MaxCap.
MaxCap == 2
\* Most records in the response of a tool invocation (Spec).
MaxToolRecords == 2
\* Longest text over HmAlphabet the spacing expansion is applied to (SpecFn).
MaxSymbol == 4
\* Longest provider list passed to the per-provider clause maps (SpecFn).
MaxProviderList == 2

\* Python's None, and "no value yet" for a model variable.
None == [none |-> TRUE]

\* ------------------------------------------------------------ text helpers
Min(a, b) == IF a < b THEN a ELSE b

\* s[from:] of Python, 0-based `from`.
Drop(s, from) == SubSeq(s, from + 1, Len(s))

\* s[:to] of Python.
Take(s, to) == SubSeq(s, 1, Min(to, Len(s)))

\* str.replace(old, new) for one-character old and new.
Replace(s, old, new) == [k \in 1..Len(s) |-> IF s[k] = old THEN new ELSE s[k]]

\* str.strip(chars): drop leading and trailing characters that are in chars.
StripChars(s, chars) ==
    LET keep == {k \in 1..Len(s) : s[k] \notin chars}
    IN  IF keep = {} THEN <<>>
        ELSE LET lo == CHOOSE k \in keep : \A m \in keep : k <= m
                 hi == CHOOSE k \in keep : \A m \in keep : m <= k
             IN  SubSeq(s, lo, hi)

\* str.strip(): whitespace.
Whitespace == {" ", "\t", "\n"}
Strip(s) == StripChars(s, Whitespace)

\* 0-based position of the first character of s that is in chars, or Len(s).
FindFirst(s, chars) ==
    LET hits == {k \in 1..Len(s) : s[k] \in chars}
    IN  IF hits = {} THEN Len(s)
        ELSE (CHOOSE k \in hits : \A m \in hits : k <= m) - 1

Letters == {"a", "b", "c", "h", "p", "s", "t"}
Digits == {"0", "1", "2", "3"}
SchemeChars == Letters \cup Digits \cup {"+", "-", "."}

\* urllib.parse.urlparse(url), restricted to URLs without '?', '#', ';':
\* [scheme, netloc, path].
urlparse(url) ==
    LET colon == FindFirst(url, {":"})
        hasScheme == /\ colon > 0
                     /\ colon < Len(url)
                     /\ url[1] \in Letters
                     /\ \A k \in 1..colon : url[k] \in SchemeChars
        rest == IF hasScheme THEN Drop(url, colon + 1) ELSE url
        hasNetloc == Len(rest) >= 2 /\ rest[1] = "/" /\ rest[2] = "/"
        afterSlashes == Drop(rest, 2)
        cut == FindFirst(afterSlashes, {"/"})
    IN  [scheme |-> IF hasScheme THEN Take(url, colon) ELSE <<>>,
         netloc |-> IF hasNetloc THEN Take(afterSlashes, cut) ELSE <<>>,
         path   |-> IF hasNetloc THEN Drop(afterSlashes, cut) ELSE rest]

\* Optimade_Server/utils.py: _provider_name_from_url
provider_name_from_url(url) ==
    LET parsed == urlparse(url)
        netloc == Replace(parsed.netloc, ".", "_")
        path == Replace(StripChars(parsed.path, {"/"}), "/", "_")
        name == IF path # <<>> THEN netloc \o <<"_">> \o path ELSE netloc
        stripped == StripChars(name, {"_"})
    IN  IF stripped # <<>> THEN stripped ELSE <<"p", "r", "o", "v", "i", "d", "e", "r">>

\* Provider URLs (keys of the aggregated response) the model draws from.
UrlP1 == <<"p", "1">>
UrlP2 == <<"p", "2">>
UrlP1Slash == <<"p", "1", "/">>
Urls == {UrlP1, UrlP2, UrlP1Slash}

\* provider_name of each URL of the model, computed once.
ProviderName == [url \in Urls |-> provider_name_from_url(url)]

\* The caller of a direct call of save_structures.
Direct == "save_structures"

\* ------------------------------------------------------------------- state
VARIABLES
    pc,             \* position of the invocation
    tool,           \* the tool invoked; Direct when save_structures is called directly
    input,          \* the tool's intent argument (formula, elements, filter, query)
    providers,      \* the tool's providers argument: None or a list
    max_results,    \* per-provider cap
    as_cif,         \* TRUE: CIF output, FALSE: JSON output
    filter_str,     \* filter text built by the tool (empty before it is built)
    calls,          \* calls of OptimadeClient.get: [filter, include_providers], in order
    output_folder,  \* the invocation's output directory (None before it is named)
    dirs,           \* output directories created by this invocation
    disk,           \* paths of the files that exist
    response,       \* provider entries of the aggregated response read so far
    idx,            \* enumerate() index i in the current provider's data list
    files,          \* save_structures: files
    warnings,       \* save_structures: warnings
    providers_seen, \* save_structures: providers_seen
    last,           \* what happened to the record handled last (None: none yet)
    manifest,       \* content of summary.json in output_folder (None: not written)
    result          \* value returned to the caller (None: nothing returned)

vars == <<pc, tool, input, providers, max_results, as_cif, filter_str, calls,
          output_folder, dirs, disk, response, idx,
          files, warnings, providers_seen, last, manifest, result>>

toolVars == <<tool, input, providers, max_results, as_cif, filter_str, calls,
              output_folder>>

\* --------------------------------------------------------- save_structures
\* The aggregated response {"structures": {filter: {url: {"data": [...]}}}} is read
\* by the two nested loops once, in dict order.  The model draws it as the loops
\* reach it: each provider entry [url, newkey, n] when the inner loop arrives at it
\* (newkey: it is the first provider of the next filter key), each record's
\* conversion and write outcome when the record is handled.  `response` keeps the
\* entries read so far, with the lengths of files and warnings at that moment.

\* Structure(structure_data).convert('cif'): the text returned, per outcome.
CifContent(conv) ==
    CASE conv = "text"  -> <<"d", "a", "t", "a", "_">>
      [] conv = "empty" -> <<>>
      [] conv = "blank" -> <<" ", "\n">>

\* A plausible slip: only the empty string is rejected, whitespace is written.
IsEmptyCifNoStrip(cif_content) == cif_content = <<>>

\* utils.py:130  `not cif_content or not cif_content.strip()`
IsEmptyCif(cif_content) == cif_content = <<>> \/ Strip(cif_content) = <<>>

\* A plausible slip: the data list is not sliced.
RetainedAll(n, cap) == n

\* utils.py:122  len(data_list[:max_results]) for max_results > 0
Retained(n, cap) == Min(n, cap)

\* utils.py:123  suffix
Suffix(cif) == IF cif THEN "cif" ELSE "json"

\* A plausible slip: the index counts the provider's files written so far.
FilePathByCount(folder, name, i, suffix) ==
    <<folder, name, Len(files) - response[Len(response)].f0, suffix>>

\* utils.py:124-125  output_folder / f"{provider_name}_{i}.{suffix}"
FilePath(folder, name, i, suffix) == <<folder, name, i, suffix>>

\* utils.py:139  f"Failed to save structure from {provider_name} #{i}: {e}"
SaveWarning(name, i, detail) ==
    [text |-> "Failed to save structure from", provider |-> name, index |-> i,
     detail |-> detail]

\* A plausible slip: the failure is logged but not added to warnings.
WarningsAfterLogOnly(warns, name, i, detail) == warns

\* utils.py:138-141  except Exception as e: msg = ...; warnings.append(msg)
WarningsAfter(warns, name, i, detail) == Append(warns, SaveWarning(name, i, detail))

\* str(e) of an exception raised by a collaborator (conversion, file write).
Raised == "error"

ConvOutcomes == {"text", "empty", "blank", "raise"}
WriteOutcomes == {"ok", "raise"}

Current == response[Len(response)]

\* The inner loop has no record left in the current provider entry.
EntryDone ==
    IF response = <<>> THEN TRUE ELSE idx >= Retained(Current.n, max_results)

\* URLs already used as keys of the filter key being read (dict keys are unique).
UrlsOfCurrentKey ==
    LET starts == {k \in 1..Len(response) : response[k].newkey}
    IN  IF starts = {} THEN {}
        ELSE LET s == CHOOSE k \in starts : \A m \in starts : m <= k
             IN  {response[k].url : k \in s..Len(response)}

\* Bounds of the response drawn: a tool invocation's response has one provider entry.
EntryBound == IF tool = Direct THEN MaxEntries ELSE 1
RecordBound == IF tool = Direct THEN MaxTotal ELSE MaxToolRecords

RECURSIVE SumN(_)
SumN(entries) == IF entries = <<>> THEN 0 ELSE entries[1].n + SumN(Tail(entries))
RecordsRead == SumN(response)

\* A plausible slip: a provider is recorded only when it brought records.
SeenAfterNonEmpty(seen, name, n) == IF n > 0 THEN Append(seen, name) ELSE seen

\* utils.py:118  providers_seen.append(provider_name), before the data is looked at
SeenAfter(seen, name, n) == Append(seen, name)

\* utils.py:109-112  mkdir and the three empty lists
SaveStart ==
    /\ pc = "save_start"
    /\ \/ /\ dirs' = dirs \cup {output_folder}
          /\ pc' = "save_loop"
       \/ /\ dirs' = dirs
          /\ pc' = "raised"
    /\ files' = <<>>
    /\ warnings' = <<>>
    /\ providers_seen' = <<>>
    /\ UNCHANGED <<toolVars, disk, response, idx, last,
                   manifest, result>>

\* utils.py:115-120  the next provider entry of the response
NextProvider ==
    /\ pc = "save_loop"
    /\ EntryDone
    /\ Len(response) < EntryBound
    /\ \E url \in Urls, newkey \in BOOLEAN, n \in 0..(RecordBound - RecordsRead) :
        /\ response = <<>> => newkey
        /\ ~newkey => url \notin UrlsOfCurrentKey
        /\ providers_seen' = SeenAfter(providers_seen, ProviderName[url], n)
        /\ response' = Append(response, [url |-> url, newkey |-> newkey, n |-> n,
                                         f0 |-> Len(files), w0 |-> Len(warnings)])
    /\ idx' = 0
    /\ UNCHANGED <<pc, toolVars, dirs, disk, files, warnings, last, manifest, result>>

\* utils.py:122-141  one record of the current provider
SaveRecordAs(conv, wr) ==
    LET provider_name == ProviderName[Current.url]
        file_path == FilePath(output_folder, provider_name, idx, Suffix(as_cif))
        failure ==
            IF as_cif /\ conv = "raise" THEN Raised
            ELSE IF as_cif /\ IsEmptyCif(CifContent(conv)) THEN "CIF content is empty"
            ELSE IF wr = "raise" THEN Raised
            ELSE ""
    IN  /\ IF failure = ""
           THEN /\ disk' = disk \cup {file_path}
                /\ files' = Append(files, file_path)
                /\ warnings' = warnings
           ELSE /\ disk' = disk
                /\ files' = files
                /\ warnings' = WarningsAfter(warnings, provider_name, idx, failure)
        /\ last' = [conv |-> IF as_cif THEN conv ELSE "unused",
                    wr |-> IF as_cif /\ (conv = "raise" \/ IsEmptyCif(CifContent(conv)))
                          THEN "unused" ELSE wr,
                    path |-> file_path, saved |-> failure = ""]

SaveRecord ==
    /\ pc = "save_loop"
    /\ response # <<>>
    /\ idx < Retained(Current.n, max_results)
    /\ \E conv \in ConvOutcomes, wr \in WriteOutcomes : SaveRecordAs(conv, wr)
    /\ idx' = idx + 1
    /\ UNCHANGED <<pc, toolVars, dirs, response,
                   providers_seen, manifest, result>>

\* utils.py:143  return files, warnings, providers_seen (the response has no
\* further provider entry)
SaveReturn ==
    /\ pc = "save_loop"
    /\ EntryDone
    /\ pc' = "saved"
    /\ UNCHANGED <<toolVars, dirs, disk, response, idx,
                   files, warnings, providers_seen, last, manifest, result>>

\* save_structures(results, output_folder, max_results, as_cif) called on every
\* response within the bounds, every cap in 1..MaxCap and both formats.
SaveFolder == [base |-> "materials_data", name |-> <<"out">>]

InitSave ==
    /\ pc = "save_start"
    /\ tool = Direct
    /\ input = None
    /\ providers = None
    /\ max_results \in 1..MaxCap
    /\ as_cif \in BOOLEAN
    /\ filter_str = <<>>
    /\ calls = <<>>
    /\ output_folder = SaveFolder
    /\ dirs = {}
    /\ disk = {}
    /\ response = <<>>
    /\ idx = 0
    /\ files = <<>>
    /\ warnings = <<>>
    /\ providers_seen = <<>>
    /\ last = None
    /\ manifest = None
    /\ result = None

NextSave == SaveStart \/ NextProvider \/ SaveRecord \/ SaveReturn

SpecSave == InitSave /\ [][NextSave]_vars

\* ------------------------------------------------------------ tool surface
\* The tools of the servers.  "formula" and "elements" are the tools of
\* Optimade_Server/server.py, "raw" is fetch_structures_with_filter of
\* optimade_test/server_direct_filter.py, "advanced" is fetch_structures_advanced of
\* optimade_test/server.py, "mp_formula" and "mp_elements" are the tools of
\* src/server.py, which query the provider "mp" only and write the files themselves.
SaveTools == {"formula", "elements", "raw", "advanced"}
MpTools == {"mp_formula", "mp_elements"}
Tools == SaveTools \cup MpTools

\* Optimade_Server/server.py:19-22 (the same set in the two optimade_test servers)
DEFAULT_PROVIDERS ==
    {"alexandria", "cmr", "mp", "mpds", "nmd", "odbx", "omdb", "oqmd", "jarvis"}

\* Provider ids of the model in the order sorted() gives them.
ProviderOrder ==
    <<"alexandria", "cmr", "jarvis", "mp", "mpds", "nmd", "odbx", "omdb", "oqmd", "zz">>

\* Provider names of the model's URLs in the order sorted() gives them.
NameOrder == <<UrlP1, UrlP2>>

\* sorted(list(S)) for S within the elements of order.
Sorted(S, order) == SelectSeq(order, LAMBDA x : x \in S)

ToSet(seq) == {seq[k] : k \in 1..Len(seq)}

\* A plausible slip: the default set is reported whatever the caller asked for.
UsedProvidersDefault(arg) == DEFAULT_PROVIDERS

\* `set(providers) if providers else DEFAULT_PROVIDERS`
UsedProviders(arg) ==
    IF arg = None \/ arg.list = <<>> THEN DEFAULT_PROVIDERS ELSE ToSet(arg.list)

\* A plausible slip: ids outside the default catalog are dropped.
IncludeProvidersKnown ==
    IF tool \in MpTools THEN {"mp"} ELSE UsedProviders(providers) \cap DEFAULT_PROVIDERS

\* include_providers of the client the tool builds
IncludeProviders == IF tool \in MpTools THEN {"mp"} ELSE UsedProviders(providers)

\* Element symbols of the model in alphabetical order (sorted() of the symbols).
SymbolOrder == <<"Al", "C", "H", "O", "Si", "Ti">>

\* pymatgen Composition(formula): a formula is given as its parsed terms
\* [el, n]; the amount of an element is the sum of its terms.
Amount(formula, el) ==
    LET RECURSIVE Sum(_)
        Sum(f) == IF f = <<>> THEN 0
                  ELSE (IF f[1].el = el THEN f[1].n ELSE 0) + Sum(Tail(f))
    IN  Sum(formula)

\* Composition(formula) raises for text that is no chemical formula.
Parseable(formula) == \A k \in 1..Len(formula) : formula[k].el \in ToSet(SymbolOrder)

\* Composition.hill_formula.replace(' ', ''): carbon first, then hydrogen, then the
\* other elements alphabetically (all alphabetically without carbon); an amount of
\* 1 is not written.
HillFormula(formula) ==
    LET present == {formula[k].el : k \in 1..Len(formula)}
        sorted == Sorted(present, SymbolOrder)
        rest == SelectSeq(sorted, LAMBDA e : e \notin {"C", "H"})
        hill == IF "C" \in present
                THEN <<"C">> \o (IF "H" \in present THEN <<"H">> ELSE <<>>) \o rest
                ELSE sorted
        RECURSIVE Write(_)
        Write(els) ==
            IF els = <<>> THEN <<>>
            ELSE LET n == Amount(formula, els[1])
                 IN  (IF n = 1 THEN <<els[1]>> ELSE <<els[1], n>>) \o Write(Tail(els))
    IN  Write(hill)

\* Optimade_Server/utils.py:69-71 and src/server.py:39-48
hill_formula_filter(formula) ==
    <<"chemical_formula_reduced=", "\"">> \o HillFormula(formula) \o <<"\"">>

\* ', '.join(f'"{e}"' for e in elements)
RECURSIVE QuotedList(_)
QuotedList(elements) ==
    IF elements = <<>> THEN <<>>
    ELSE <<"\"", elements[1], "\"">>
         \o (IF Len(elements) > 1 THEN <<", ">> ELSE <<>>)
         \o QuotedList(Tail(elements))

\* A plausible slip: every group is written with HAS ALL.
ElementClauseAlwaysAll(op, elements) ==
    <<"elements ", "HAS ALL", " ">> \o QuotedList(elements)

\* 'elements HAS ALL ' + ', '.join(...)  (and HAS ANY, HAS ONLY)
ElementClause(op, elements) == <<"elements ", op, " ">> \o QuotedList(elements)

\* " AND ".join(parts)
RECURSIVE JoinAnd(_)
JoinAnd(parts) ==
    IF parts = <<>> THEN <<>>
    ELSE parts[1] \o (IF Len(parts) > 1 THEN <<" AND ">> ELSE <<>>) \o JoinAnd(Tail(parts))

\* optimade_test/server.py:70-78
build_filter(q) ==
    LET parts ==
            (IF q.elements_all # <<>>
             THEN <<ElementClause("HAS ALL", q.elements_all)>> ELSE <<>>)
            \o (IF q.elements_any # <<>>
                THEN <<ElementClause("HAS ANY", q.elements_any)>> ELSE <<>>)
            \o (IF q.elements_only # <<>>
                THEN <<ElementClause("HAS ONLY", q.elements_only)>> ELSE <<>>)
    IN  IF parts # <<>> THEN JoinAnd(parts) ELSE ElementClause("HAS ANY", <<"Si">>)

\* Path(): the empty path
EmptyPath == [base |-> ".", name |-> <<>>]

\* datetime.now().strftime("%Y%m%d_%H%M%S") of the invocation
Now == "20250101_000000"

\* hashlib.sha1(filt.encode("utf-8")).hexdigest()[:8], for the filters of the model
ShortHash(filt) ==
    CASE filt = <<"elements HAS ANY \"Si\"">> -> "3b718244"
      [] filt = <<"elements HAS ANY \"Al\"">> -> "f70c53b1"

\* "_".join(elements)
RECURSIVE JoinUnderscore(_)
JoinUnderscore(elements) ==
    IF elements = <<>> THEN <<>>
    ELSE <<elements[1]>> \o (IF Len(elements) > 1 THEN <<"_">> ELSE <<>>)
         \o JoinUnderscore(Tail(elements))

\* The output folder each tool names (BASE_OUTPUT_DIR / ...) when it starts at ts:
\* Optimade_Server/server.py:93 and 138-139, server_direct_filter.py:119-121,
\* optimade_test/server.py:148-149.
FolderAt(t, arg, filt, ts) ==
    [base |-> "materials_data",
     name |-> CASE t = "formula"  -> <<"formula_", arg.formula, "_", ts>>
                [] t = "elements" -> <<"elements_">> \o JoinUnderscore(arg.elements)
                                     \o <<"_", ts>>
                [] t = "raw"      -> <<"rawfilter_", ts, "_", ShortHash(filt)>>
                [] t = "advanced" -> <<"elements_query_", ts>>]

FolderOf(t, arg, filt) == FolderAt(t, arg, filt, Now)

\* A plausible slip: the warnings are left out of the result.
EnvelopeNoWarnings(dir, fs, used, filt, warns) ==
    [kind |-> "dict",
     value |-> [output_dir |-> dir, files |-> fs, providers_used |-> used,
                filter |-> filt]]

\* The five-field result of the raw-filter and advanced tools.
Envelope(dir, fs, used, filt, warns) ==
    [kind |-> "dict",
     value |-> [output_dir |-> dir, files |-> fs, providers_used |-> used,
                filter |-> filt, warnings |-> warns]]

\* The result of the tools of Optimade_Server/server.py: {"output_dir": ...}.
DirResult(dir) == [kind |-> "dict", value |-> [output_dir |-> dir]]

\* The result of the tools of src/server.py: a list of strings.
ListResult(items) == [kind |-> "list", value |-> items]

saveVars == <<dirs, disk, response, idx, files, warnings, providers_seen, last,
              manifest>>

\* Inputs of the model.
Formulas == {<<[el |-> "Ti", n |-> 1], [el |-> "O", n |-> 2]>>,
             <<[el |-> "O", n |-> 2], [el |-> "Ti", n |-> 1]>>,
             <<[el |-> "Ti", n |-> 2], [el |-> "O", n |-> 4]>>,
             <<[el |-> "??", n |-> 1]>>}
ElementLists == {<<>>, <<"Al", "O">>}
RawFilters == {<<>>, <<" ">>, <<" ", "elements HAS ANY \"Si\"", "\n">>,
               <<"elements HAS ANY \"Al\"">>}
ProviderArgs == {None, [list |-> <<>>], [list |-> <<"zz", "mp">>]}

Inputs(t) ==
    CASE t \in {"formula", "mp_formula"}   -> {[formula |-> f] : f \in Formulas}
      [] t \in {"elements", "mp_elements"} -> {[elements |-> e] : e \in ElementLists}
      [] t = "raw"                         -> {[filter |-> f] : f \in RawFilters}
      [] t = "advanced" ->
            {[valid |-> TRUE, elements_all |-> a, elements_any |-> b,
              elements_only |-> c] : a, b, c \in ElementLists}
            \cup {[valid |-> FALSE, elements_all |-> <<>>, elements_any |-> <<>>,
                   elements_only |-> <<>>]}

\* A tool is invoked: any tool, any input of the sets above.
Init ==
    /\ pc = "called"
    /\ tool \in Tools
    /\ input \in Inputs(tool)
    /\ providers \in (IF tool \in MpTools THEN {None} ELSE ProviderArgs)
    /\ max_results \in 1..MaxCap
    /\ as_cif \in BOOLEAN
    /\ filter_str = <<>>
    /\ calls = <<>>
    /\ output_folder = EmptyPath
    /\ dirs = {}
    /\ disk = {}
    /\ response = <<>>
    /\ idx = 0
    /\ files = <<>>
    /\ warnings = <<>>
    /\ providers_seen = <<>>
    /\ last = None
    /\ manifest = None
    /\ result = None

\* Optimade_Server/server.py:81 and src/server.py:65: hill_formula_filter(formula),
\* outside any try.
FormulaFilter ==
    /\ pc = "called"
    /\ tool \in {"formula", "mp_formula"}
    /\ IF Parseable(input.formula)
       THEN /\ filter_str' = hill_formula_filter(input.formula)
            /\ pc' = "query"
       ELSE /\ filter_str' = filter_str
            /\ pc' = "raised"
    /\ UNCHANGED <<tool, input, providers, max_results, as_cif, calls, output_folder,
                   saveVars, result>>

\* Optimade_Server/server.py:126 and src/server.py:107
ElementsFilter ==
    /\ pc = "called"
    /\ tool \in {"elements", "mp_elements"}
    /\ filter_str' = ElementClause("HAS ALL", input.elements)
    /\ pc' = "query"
    /\ UNCHANGED <<tool, input, providers, max_results, as_cif, calls, output_folder,
                   saveVars, result>>

\* optimade_test/server_direct_filter.py:92-96
RawFilter ==
    /\ pc = "called"
    /\ tool = "raw"
    /\ LET filt == Strip(input.filter)
       IN  IF filt = <<>>
           THEN /\ result' = Envelope(EmptyPath, <<>>, <<>>, <<>>,
                                      <<[text |-> "[raw] empty filter string"]>>)
                /\ filter_str' = filter_str
                /\ pc' = "returned"
           ELSE /\ result' = result
                /\ filter_str' = filt
                /\ pc' = "query"
    /\ UNCHANGED <<tool, input, providers, max_results, as_cif, calls, output_folder,
                   saveVars>>

\* optimade_test/server.py:111-126
AdvancedFilter ==
    /\ pc = "called"
    /\ tool = "advanced"
    /\ IF ~input.valid
       THEN /\ result' = Envelope(EmptyPath, <<>>, <<>>, <<>>,
                                  <<[text |-> "validation_error", detail |-> Raised]>>)
            /\ filter_str' = filter_str
            /\ pc' = "returned"
       ELSE /\ result' = result
            /\ filter_str' = build_filter(input)
            /\ pc' = "query"
    /\ UNCHANGED <<tool, input, providers, max_results, as_cif, calls, output_folder,
                   saveVars>>

\* The one call of the federated query client: OptimadeClient(...).get(filter=...)
TheCall == [filter |-> filter_str, include_providers |-> IncludeProviders,
            max_results_per_provider |-> max_results]

\* A plausible slip: a failed query is tried again.
AfterQueryErrorRetry(t) == "query"

\* Where the invocation goes when the query raises: the except branch returns
\* (Optimade_Server/server.py:89-91, server_direct_filter.py:107-116,
\* optimade_test/server.py:136-145), without a try the exception leaves the tool
\* (src/server.py:66-67); no tool calls the client again.
AfterQueryError(t) == IF t \in MpTools THEN "raised" ELSE "returned"

\* The query raises.  Optimade_Server/server.py:89-91 and 134-136,
\* server_direct_filter.py:107-116, optimade_test/server.py:136-145;
\* src/server.py:66-67 and 108-109 have no try around it.
QueryRaises ==
    /\ pc = "query"
    /\ calls' = Append(calls, TheCall)
    /\ CASE tool \in {"formula", "elements"} ->
                result' = DirResult(EmptyPath)
         [] tool \in {"raw", "advanced"} ->
                result' = Envelope(EmptyPath, <<>>,
                                   Sorted(IncludeProviders, ProviderOrder),
                                   filter_str,
                                   <<[text |-> "fetch failed", detail |-> Raised]>>)
         [] tool \in MpTools ->
                result' = result
    /\ pc' = AfterQueryError(tool)
    /\ UNCHANGED <<tool, input, providers, max_results, as_cif, filter_str,
                   output_folder, saveVars>>

\* The query returns an aggregated response; the tools that use save_structures
\* name the output folder and call it.
QueryReturns ==
    /\ pc = "query"
    /\ calls' = Append(calls, TheCall)
    /\ IF tool \in MpTools
       THEN /\ output_folder' = [base |-> "materials_data", name |-> <<>>]
            /\ pc' = "mp_extract"
       ELSE /\ output_folder' = FolderOf(tool, input, filter_str)
            /\ pc' = "save_start"
    /\ UNCHANGED <<tool, input, providers, max_results, as_cif, filter_str,
                   saveVars, result>>

\* A plausible slip: the manifest is written without the warnings.
ManifestNoWarnings ==
    [filter |-> filter_str,
     providers_requested |-> Sorted(IncludeProviders, ProviderOrder),
     providers_seen |-> providers_seen,
     files |-> files,
     warnings |-> <<>>,
     format |-> Suffix(as_cif),
     max_results_per_provider |-> max_results]

\* server_direct_filter.py:130-140: the manifest
Manifest ==
    [filter |-> filter_str,
     providers_requested |-> Sorted(IncludeProviders, ProviderOrder),
     providers_seen |-> providers_seen,
     files |-> files,
     warnings |-> warnings,
     format |-> Suffix(as_cif),
     max_results_per_provider |-> max_results]

\* sorted(list(set(providers_seen)))
ProvidersUsed == Sorted(ToSet(providers_seen), NameOrder)

\* After save_structures: Optimade_Server/server.py:96 and 142,
\* server_direct_filter.py:130-148, optimade_test/server.py:154-160.
ToolReturn ==
    /\ pc = "saved"
    /\ tool \in SaveTools
    /\ CASE tool \in {"formula", "elements"} ->
                /\ result' = DirResult(output_folder)
                /\ manifest' = manifest
                /\ pc' = "returned"
         [] tool = "advanced" ->
                /\ result' = Envelope(output_folder, files, ProvidersUsed, filter_str,
                                      warnings)
                /\ manifest' = manifest
                /\ pc' = "returned"
         [] tool = "raw" ->
                \/ /\ manifest' = Manifest
                   /\ result' = Envelope(output_folder, files, ProvidersUsed,
                                         filter_str, warnings)
                   /\ pc' = "returned"
                \/ /\ manifest' = manifest
                   /\ result' = result
                   /\ pc' = "raised"
    /\ UNCHANGED <<toolVars, dirs, disk, response, idx, files, warnings,
                   providers_seen, last>>

\* src/server.py:69-75 and 111-117: jmespath "structures.*.*.data" [0][0], the data
\* list of the first provider of the first filter key, cut to max_results.
MpExtract ==
    /\ pc = "mp_extract"
    /\ \/ /\ response' = <<>>
          /\ result' = ListResult(<<[text |-> "Error extracting data", detail |-> Raised]>>)
          /\ pc' = "returned"
       \/ /\ \E url \in Urls, n \in 0..RecordBound :
                response' = <<[url |-> url, newkey |-> TRUE, n |-> n, f0 |-> 0, w0 |-> 0]>>
          /\ result' = result
          /\ pc' = "mp_loop"
    /\ idx' = 0
    /\ files' = <<>>
    /\ UNCHANGED <<toolVars, dirs, disk, warnings, providers_seen, last, manifest>>

\* src/server.py:79 and 121: the file name stem
MpStem == IF tool = "mp_formula" THEN input.formula ELSE input.elements

\* src/server.py:76-88 and 118-130: one record.  The file is opened for writing
\* before the record is converted, and the text is written as it is.
MpSaveRecord ==
    /\ pc = "mp_loop"
    /\ idx < Retained(Current.n, max_results)
    /\ LET file_path == FilePath(output_folder, MpStem, idx, Suffix(as_cif))
           failed == [text |-> "Failed to save structure", index |-> idx, detail |-> Raised]
       IN  \E open \in WriteOutcomes, conv \in ConvOutcomes, wr \in WriteOutcomes :
             IF open = "raise"
             THEN /\ disk' = disk
                  /\ files' = Append(files, failed)
                  /\ last' = [conv |-> "unused", wr |-> "unused", path |-> file_path,
                              saved |-> FALSE]
             ELSE /\ disk' = disk \cup {file_path}
                  /\ IF (as_cif /\ conv = "raise") \/ wr = "raise"
                     THEN /\ files' = Append(files, failed)
                          /\ last' = [conv |-> IF as_cif THEN conv ELSE "unused",
                                      wr |-> IF as_cif /\ conv = "raise" THEN "unused" ELSE wr,
                                      path |-> file_path, saved |-> FALSE]
                     ELSE /\ files' = Append(files, [path |-> file_path])
                          /\ last' = [conv |-> IF as_cif THEN conv ELSE "unused",
                                      wr |-> wr, path |-> file_path, saved |-> TRUE]
    /\ idx' = idx + 1
    /\ UNCHANGED <<pc, toolVars, dirs, response, warnings, providers_seen, manifest,
                   result>>

\* src/server.py:90 and 132: return saved_paths
MpReturn ==
    /\ pc = "mp_loop"
    /\ idx >= Retained(Current.n, max_results)
    /\ result' = ListResult(files)
    /\ pc' = "returned"
    /\ UNCHANGED <<toolVars, saveVars>>

Next ==
    \/ FormulaFilter
    \/ ElementsFilter
    \/ RawFilter
    \/ AdvancedFilter
    \/ QueryRaises
    \/ QueryReturns
    \/ SaveStart
    \/ NextProvider
    \/ SaveRecord
    \/ SaveReturn
    \/ ToolReturn
    \/ MpExtract
    \/ MpSaveRecord
    \/ MpReturn

Spec == Init /\ [][Next]_vars

\* -------------------------------------------------- the filter-building functions
\* The pure functions of Optimade_Server/utils.py are applied to inputs drawn from
\* bounded sets: `tool` names the function, `input` holds its arguments, `result`
\* the value it returned.

\* Arguments of build_provider_filters: base is None or a text, provider_map maps
\* provider ids to clause texts.
BaseArgs == {None, [text |-> <<>>], [text |-> <<" ">>], [text |-> <<"a", "=", "1">>],
             [text |-> <<" ", "a", "=", "1", "\n">>]}
Clauses == {<<>>, <<" ", "\n">>, <<"c", "=", "2">>, <<" ", "c", "=", "2", " ">>}
MapProviders == {"oqmd", "zz"}
ProviderMaps == UNION {[S -> Clauses] : S \in SUBSET MapProviders}

\* utils.py:289  b = (base or "").strip()
TrimmedBase(base) == Strip(IF base = None THEN <<>> ELSE base.text)

\* A plausible slip: the parenthesised conjunction is built whatever the base is.
CombinedClauseAlways(b, c) == <<"(">> \o b \o <<")", " AND ", "(">> \o c \o <<")">>

\* utils.py:291  f"({b}) AND ({c.strip()})" if b and c.strip() else (b or c.strip()),
\* c being the trimmed clause.
CombinedClause(b, c) ==
    IF b # <<>> /\ c # <<>> THEN <<"(">> \o b \o <<")", " AND ", "(">> \o c \o <<")">>
    ELSE IF b # <<>> THEN b ELSE c

\* A plausible slip: no clause is skipped.
KeptClausesAll(provider_map) == DOMAIN provider_map

\* utils.py:293  if c and c.strip()
KeptClauses(provider_map) ==
    {p \in DOMAIN provider_map :
        provider_map[p] # <<>> /\ Strip(provider_map[p]) # <<>>}

\* utils.py:273-294
build_provider_filters(base, provider_map) ==
    LET b == TrimmedBase(base)
    IN  [p \in KeptClauses(provider_map) |-> CombinedClause(b, Strip(provider_map[p]))]

\* The value a function returned: a dict, or a text.
DictResult(map) == [kind |-> "dict", value |-> map]
TextResult(text) == [kind |-> "text", value |-> text]

\* All sequences over S of length at most n.
SeqsUpTo(S, n) == UNION {[1..k -> S] : k \in 0..n}

\* ---- _to_tcod_format
\* Characters of Hermann-Mauguin symbols in the model: [A-Za-z] and \d.
HmLetters == {"P", "F", "m", "d", "c"}
HmDigits == {"1", "2", "3", "4"}
IsLetter(ch) == ch \in HmLetters
IsDigit(ch) == ch \in HmDigits

\* Index of the first character after position k that is no whitespace (0: none).
NextNonSpace(s, k) ==
    LET later == {j \in (k + 1)..Len(s) : s[j] \notin Whitespace}
    IN  IF later = {} THEN 0 ELSE CHOOSE j \in later : \A m \in later : j <= m

\* Index of the last character before position k that is no whitespace (0: none).
PrevNonSpace(s, k) ==
    LET earlier == {j \in 1..(k - 1) : s[j] \notin Whitespace}
    IN  IF earlier = {} THEN 0 ELSE CHOOSE j \in earlier : \A m \in earlier : m <= j

\* utils.py:198  re.sub(r'/([A-Za-z]+)', lambda m: '/' + ' '.join(m.group(1)), s):
\* the letters of the run that follows a '/' are separated by spaces.
ExpandSlashGroups(s) ==
    LET InGroup(k) == \E j \in 1..(k - 1) :
                          s[j] = "/" /\ \A m \in (j + 1)..k : IsLetter(s[m])
        RECURSIVE From(_)
        From(k) ==
            IF k > Len(s) THEN <<>>
            ELSE (IF k > 1 /\ IsLetter(s[k]) /\ InGroup(k - 1)
                  THEN <<" ", s[k]>> ELSE <<s[k]>>)
                 \o From(k + 1)
    IN  From(1)

\* utils.py:200  (?<=[A-Za-z])(?=[A-Za-z])
LetterLetter(a, b) == IsLetter(a) /\ IsLetter(b)

\* utils.py:200  re.sub(r'(?<=[A-Za-z])(?=[A-Za-z])', ' ', s): a space is put
\* between s[k] and s[k+1] wherever the zero-width pattern matches.
SpaceLetters(s) ==
    LET RECURSIVE From(_)
        From(k) ==
            IF k > Len(s) THEN <<>>
            ELSE <<s[k]>>
                 \o (IF k < Len(s) /\ LetterLetter(s[k], s[k + 1]) THEN <<" ">> ELSE <<>>)
                 \o From(k + 1)
    IN  From(1)

\* A plausible slip: only the letter-to-digit side of the pattern.
LetterThenDigit(a, b) == IsLetter(a) /\ IsDigit(b)

\* utils.py:202  (?<=[A-Za-z])(?=\d)|(?<=\d)(?=[A-Za-z])
LetterDigit(a, b) == (IsLetter(a) /\ IsDigit(b)) \/ (IsDigit(a) /\ IsLetter(b))

\* utils.py:202  re.sub(r'(?<=[A-Za-z])(?=\d)|(?<=\d)(?=[A-Za-z])', ' ', s)
SpaceLetterDigit(s) ==
    LET RECURSIVE From(_)
        From(k) ==
            IF k > Len(s) THEN <<>>
            ELSE <<s[k]>>
                 \o (IF k < Len(s) /\ LetterDigit(s[k], s[k + 1]) THEN <<" ">> ELSE <<>>)
                 \o From(k + 1)
    IN  From(1)

\* utils.py:204  re.sub(r'\s*-\s*(?=\d)', ' -', s): a minus followed, after optional
\* whitespace, by a digit is rewritten with the whitespace around it as ' -'.
AttachMinus(s) ==
    LET Numeric(k) == /\ k # 0
                      /\ s[k] = "-"
                      /\ NextNonSpace(s, k) # 0
                      /\ IsDigit(s[NextNonSpace(s, k)])
        Dropped(k) == /\ s[k] \in Whitespace
                      /\ \/ Numeric(NextNonSpace(s, k))
                         \/ Numeric(PrevNonSpace(s, k))
        RECURSIVE From(_)
        From(k) ==
            IF k > Len(s) THEN <<>>
            ELSE (IF Numeric(k) THEN <<" ", "-">>
                  ELSE IF Dropped(k) THEN <<>>
                  ELSE <<s[k]>>)
                 \o From(k + 1)
    IN  From(1)

\* utils.py:206  ' '.join(s.split())
CollapseSpaces(s) ==
    LET RECURSIVE From(_)
        From(k) ==
            IF k > Len(s) THEN <<>>
            ELSE (IF s[k] \notin Whitespace THEN <<s[k]>>
                  ELSE IF /\ k > 1
                          /\ s[k - 1] \notin Whitespace
                          /\ NextNonSpace(s, k) # 0
                       THEN <<" ">>
                  ELSE <<>>)
                 \o From(k + 1)
    IN  From(1)

\* utils.py:188-206
to_tcod_format(hm) ==
    CollapseSpaces(AttachMinus(SpaceLetterDigit(SpaceLetters(ExpandSlashGroups(Strip(hm))))))

\* Symbols the expansion is applied to: the examples of the docstring and of the
\* space-group tables, and every text of at most MaxSymbol characters over
\* a letter pair, a digit, '/', '-' and '_'.
HmExamples == {<<"P", "m", "-", "3", "m">>, <<"P", "4", "/", "m", "m", "m">>,
               <<"F", "d", "-", "3", "m">>, <<"P", "2", "_", "1", "/", "c">>,
               <<"F", "m", "-", "3", "m">>}
HmAlphabet == {"P", "m", "3", "/", "-", "_"}
HmInputs == HmExamples \cup SeqsUpTo(HmAlphabet, MaxSymbol)

\* ---- get_spg_filter_map
\* utils.py:180-186  SpaceGroup.from_int_number(n).symbol, None when it raises
\* (225 is Fm-3m; 0 is no space-group number).
hm_symbol_from_number(spg_number) ==
    IF spg_number = 225 THEN [symbol |-> <<"F", "m", "-", "3", "m">>] ELSE None

\* utils.py:215-223  keys of name_map
SpgProviders == {"alexandria", "nmd", "mpdd", "odbx", "oqmd", "tcod", "cod"}

\* utils.py:216-222  name_map[p]()
SpgClause(p, spg_number, hm) ==
    CASE p = "alexandria" -> <<"_alexandria_space_group=", spg_number>>
      [] p = "nmd"        -> <<"_nmd_dft_spacegroup=", spg_number>>
      [] p = "mpdd"       -> <<"_mpdd_spacegroupn=", spg_number>>
      [] p = "odbx"       -> <<"_gnome_space_group_it_number=", spg_number>>
      [] p = "oqmd"       -> IF hm # None
                             THEN <<"_oqmd_spacegroup=", "\"">> \o hm.symbol \o <<"\"">>
                             ELSE <<>>
      [] p = "tcod"       -> IF hm # None
                             THEN <<"_tcod_sg=", "\"">> \o to_tcod_format(hm.symbol)
                                  \o <<"\"">>
                             ELSE <<>>
      [] p = "cod"        -> IF hm # None
                             THEN <<"_cod_sg=", "\"">> \o to_tcod_format(hm.symbol)
                                  \o <<"\"">>
                             ELSE <<>>

\* utils.py:208-231
get_spg_filter_map(spg_number, provider_list) ==
    LET hm == hm_symbol_from_number(spg_number)
        kept == {p \in ToSet(provider_list) \cap SpgProviders :
                    SpgClause(p, spg_number, hm) # <<>>}
    IN  [p \in kept |-> SpgClause(p, spg_number, hm)]

\* ---- get_bandgap_filter_map
\* utils.py:60-66
DEFAULT_BG_PROVIDERS == {"alexandria", "odbx", "oqmd", "mcloudarchive", "twodmatpedia"}

\* utils.py:234-241; a bound is None or [value |-> v]
range_clause(prop, min_bg, max_bg) ==
    JoinAnd((IF min_bg # None THEN <<<<prop, ">=", min_bg.value>>>> ELSE <<>>)
            \o (IF max_bg # None THEN <<<<prop, "<=", max_bg.value>>>> ELSE <<>>))

\* utils.py:255-261  name_map.get(p): the property name, None without one
BandgapProperty(p) ==
    CASE p = "alexandria"    -> [name |-> "_alexandria_band_gap"]
      [] p = "odbx"          -> [name |-> "_gnome_bandgap"]
      [] p = "oqmd"          -> [name |-> "_oqmd_band_gap"]
      [] p = "mcloudarchive" -> [name |-> "_mcloudarchive_band_gap"]
      [] p = "twodmatpedia"  -> [name |-> "_twodmatpedia_band_gap"]
      [] OTHER               -> None

\* A plausible slip: the default providers are used whatever the caller passes.
BandgapProvidersDefault(arg) == DEFAULT_BG_PROVIDERS

\* utils.py:253  providers = set(providers) if providers else DEFAULT_BG_PROVIDERS
BandgapProviders(arg) ==
    IF arg = None \/ arg.list = <<>> THEN DEFAULT_BG_PROVIDERS ELSE ToSet(arg.list)

\* utils.py:243-271
get_bandgap_filter_map(min_bg, max_bg, arg) ==
    LET kept == {p \in BandgapProviders(arg) :
                    /\ BandgapProperty(p) # None
                    /\ range_clause(BandgapProperty(p).name, min_bg, max_bg) # <<>>}
    IN  [p \in kept |-> range_clause(BandgapProperty(p).name, min_bg, max_bg)]

\* Provider collections the two maps are asked for: lists of at most
\* MaxProviderList ids, known to one map, to both or to none.
MapProviderIds == {"alexandria", "oqmd", "tcod", "mcloudarchive", "zz"}
ProviderLists == {[list |-> l] : l \in SeqsUpTo(MapProviderIds, MaxProviderList)}
SpgNumbers == {0, 225}
BandgapBounds == {None, [value |-> 1]}

\* ---- _provider_name_from_url
\* Provider URLs the name is derived from: those of the responses, and URLs with a
\* scheme, a host and a path.
FnUrls ==
    Urls \cup
    {<<>>,
     <<"/", "/">>,
     <<"h", "t", "t", "p", ":", "/", "/", "a", ".", "b">>,
     <<"h", "t", "t", "p", ":", "/", "/", "a", ".", "b", "/", "c", "/", "1", "/">>,
     <<"h", "t", "t", "p", ":", "/", "/", "a", ".", "b", "/", "c", ".", "1">>,
     <<"a", ".", "b", "/", "c">>}

\* ---- the output folder of two invocations
\* Start times of two invocations, at the one-second resolution of
\* strftime("%Y%m%d_%H%M%S").
Timestamps == {"20250101_000000", "20250101_000001"}

\* The filter text each tool sends to the query: Optimade_Server/server.py:81 and
\* 126, server_direct_filter.py:92, optimade_test/server.py:125.
FilterOf(t, arg) ==
    CASE t = "formula"  -> hill_formula_filter(arg.formula)
      [] t = "elements" -> ElementClause("HAS ALL", arg.elements)
      [] t = "raw"      -> Strip(arg.filter)
      [] t = "advanced" -> build_filter(arg)

\* Inputs with which the tool gets as far as naming its output folder.
NamingInputs(t) ==
    {arg \in Inputs(t) :
        CASE t = "formula"  -> Parseable(arg.formula)
          [] t = "elements" -> TRUE
          [] t = "raw"      -> Strip(arg.filter) # <<>>
          [] t = "advanced" -> arg.valid}

Invocations ==
    UNION {{[tool |-> t, arg |-> a, ts |-> s] : a \in NamingInputs(t), s \in Timestamps}
           : t \in SaveTools}

FolderOfInvocation(inv) == FolderAt(inv.tool, inv.arg, FilterOf(inv.tool, inv.arg), inv.ts)

FnNames == {"build_provider_filters", "_to_tcod_format", "get_spg_filter_map",
            "get_bandgap_filter_map", "_provider_name_from_url", "output_folder"}

FnInputs(fn) ==
    CASE fn = "build_provider_filters" ->
            {[base |-> b, provider_map |-> m] : b \in BaseArgs, m \in ProviderMaps}
      [] fn = "_to_tcod_format" -> {[hm |-> s] : s \in HmInputs}
      [] fn = "get_spg_filter_map" ->
            {[spg_number |-> n, providers |-> l] : n \in SpgNumbers, l \in ProviderLists}
      [] fn = "get_bandgap_filter_map" ->
            {[min_bg |-> lo, max_bg |-> hi, providers |-> l] :
                lo \in BandgapBounds, hi \in BandgapBounds,
                l \in ProviderLists \cup {None}}
      [] fn = "_provider_name_from_url" -> {[url |-> u] : u \in FnUrls}
      [] fn = "output_folder" -> {[a |-> x, b |-> y] : x \in Invocations, y \in Invocations}

\* A function is about to be applied to its arguments.
InitFn ==
    /\ pc = "fn"
    /\ tool \in FnNames
    /\ input \in FnInputs(tool)
    /\ providers = None
    /\ max_results = MaxCap
    /\ as_cif = TRUE
    /\ filter_str = <<>>
    /\ calls = <<>>
    /\ output_folder = EmptyPath
    /\ dirs = {}
    /\ disk = {}
    /\ response = <<>>
    /\ idx = 0
    /\ files = <<>>
    /\ warnings = <<>>
    /\ providers_seen = <<>>
    /\ last = None
    /\ manifest = None
    /\ result = None

fnFrame == <<tool, input, providers, max_results, as_cif, filter_str, calls,
             output_folder, saveVars>>

\* build_provider_filters(base, provider_map)
BuildProviderFilters ==
    /\ pc = "fn"
    /\ tool = "build_provider_filters"
    /\ result' = DictResult(build_provider_filters(input.base, input.provider_map))
    /\ pc' = "fn_done"
    /\ UNCHANGED fnFrame

\* _to_tcod_format(hm)
ToTcodFormat ==
    /\ pc = "fn"
    /\ tool = "_to_tcod_format"
    /\ result' = TextResult(to_tcod_format(input.hm))
    /\ pc' = "fn_done"
    /\ UNCHANGED fnFrame

\* _to_tcod_format applied to the text it returned
ToTcodFormatAgain ==
    /\ pc = "fn_done"
    /\ tool = "_to_tcod_format"
    /\ result' = [kind |-> "text", value |-> to_tcod_format(result.value),
                  previous |-> result.value]
    /\ pc' = "fn_again"
    /\ UNCHANGED fnFrame

\* get_spg_filter_map(spg_number, providers)
GetSpgFilterMap ==
    /\ pc = "fn"
    /\ tool = "get_spg_filter_map"
    /\ result' = DictResult(get_spg_filter_map(input.spg_number, input.providers.list))
    /\ pc' = "fn_done"
    /\ UNCHANGED fnFrame

\* get_bandgap_filter_map(min_bg, max_bg, providers)
GetBandgapFilterMap ==
    /\ pc = "fn"
    /\ tool = "get_bandgap_filter_map"
    /\ result' = DictResult(get_bandgap_filter_map(input.min_bg, input.max_bg,
                                                    input.providers))
    /\ pc' = "fn_done"
    /\ UNCHANGED fnFrame

\* _provider_name_from_url(url)
ProviderNameFromUrl ==
    /\ pc = "fn"
    /\ tool = "_provider_name_from_url"
    /\ result' = TextResult(provider_name_from_url(input.url))
    /\ pc' = "fn_done"
    /\ UNCHANGED fnFrame

\* Two invocations name their output folders.
NameOutputFolders ==
    /\ pc = "fn"
    /\ tool = "output_folder"
    /\ result' = [kind |-> "folders", a |-> FolderOfInvocation(input.a),
                  b |-> FolderOfInvocation(input.b)]
    /\ pc' = "fn_done"
    /\ UNCHANGED fnFrame

NextFn ==
    \/ BuildProviderFilters
    \/ ToTcodFormat
    \/ ToTcodFormatAgain
    \/ GetSpgFilterMap
    \/ GetBandgapFilterMap
    \/ ProviderNameFromUrl
    \/ NameOutputFolders

SpecFn == InitFn /\ [][NextFn]_vars

\* ------------------------------------------------- claims on save_structures
\* Files and warnings of the k-th provider entry read: the slices of files and
\* warnings between the lengths noted when the entry was reached and when the next
\* one was (or now, for the entry being read).
FilesEnd(k) == IF k < Len(response) THEN response[k + 1].f0 ELSE Len(files)
WarningsEnd(k) == IF k < Len(response) THEN response[k + 1].w0 ELSE Len(warnings)
Written(k) == FilesEnd(k) - response[k].f0
Failed(k) == WarningsEnd(k) - response[k].w0
EntryComplete(k) == k < Len(response) \/ pc = "saved"
EntryName(k) == ProviderName[response[k].url]

\* C1: for every response and every cap > 0, one save_structures call writes for
\* each provider entry at most cap files (all named after that provider, with
\* indices below the cap), and once the entry is finished at least
\* min(records of the entry, cap) minus the entry's failed records.
C1_CapPerProvider ==
    \A k \in 1..Len(response) :
        /\ Written(k) <= max_results
        /\ \A j \in (response[k].f0 + 1)..FilesEnd(k) :
              /\ files[j][1] = output_folder
              /\ files[j][2] = EntryName(k)
              /\ files[j][3] < max_results
              /\ files[j] \in disk
        /\ EntryComplete(k) =>
              Written(k) >= Min(response[k].n, max_results) - Failed(k)

\* C1 witness: a finished call in which one provider had more records than the cap
\* and got exactly cap files, and another lost a record to a failure.
C1_Witness ==
    /\ pc = "saved"
    /\ \E k \in 1..Len(response) :
          response[k].n > max_results /\ Written(k) = max_results
    /\ \E k \in 1..Len(response) : Failed(k) = 1 /\ Written(k) = 0

\* A step of the inner loop: one record of the current provider was handled.
RecordStep == pc = "save_loop" /\ response' = response /\ idx' = idx + 1

\* C2: in CIF mode a record whose conversion yields empty or whitespace-only text
\* adds exactly one warning and no file (files and the disk are as before, no path
\* of the record is added), the loop goes on with the next record, and at the
\* return every provider entry has had all its retained records handled.
C2_EmptyCifStep ==
    (RecordStep /\ as_cif /\ last'.conv \in {"empty", "blank"}) =>
        /\ warnings' = Append(warnings,
                              SaveWarning(EntryName(Len(response)), idx,
                                          "CIF content is empty"))
        /\ files' = files
        /\ disk' = disk
        /\ ~last'.saved
        /\ pc' = "save_loop"

C2_AllHandled ==
    pc = "saved" =>
        \A k \in 1..Len(response) :
            Written(k) + Failed(k) = Min(response[k].n, max_results)

C2_EmptyCif == [][C2_EmptyCifStep]_vars /\ []C2_AllHandled

\* C2 witness: a finished CIF call with an empty-content warning for record 0 of
\* the first provider, a file for record 1 of the same provider, and a file of a
\* later provider.
C2_Witness ==
    /\ pc = "saved"
    /\ as_cif
    /\ Len(response) = 2
    /\ warnings # <<>>
    /\ warnings[1] = SaveWarning(EntryName(1), 0, "CIF content is empty")
    /\ Written(1) = 1
    /\ files[1] = FilePath(output_folder, EntryName(1), 1, "cif")
    /\ Written(2) = 1

\* C3: every retained record yields exactly one outcome, its path appended to
\* files or one warning "Failed to save structure from {provider} #{index}:
\* {detail}" appended to warnings; no record makes save_structures raise; and at
\* the return len(files) + len(warnings) is the sum over the provider entries of
\* min(len(data), cap).
RECURSIVE SumRetained(_, _)
SumRetained(entries, cap) ==
    IF entries = <<>> THEN 0
    ELSE Min(entries[1].n, cap) + SumRetained(Tail(entries), cap)

C3_OneOutcomeStep ==
    RecordStep =>
        LET name == EntryName(Len(response))
            path == FilePath(output_folder, name, idx, Suffix(as_cif))
        IN  /\ \/ /\ files' = Append(files, path)
                  /\ warnings' = warnings
               \/ /\ files' = files
                  /\ \E d \in {Raised, "CIF content is empty"} :
                        warnings' = Append(warnings, SaveWarning(name, idx, d))
            /\ pc' = "save_loop"

C3_Count ==
    pc = "saved" => Len(files) + Len(warnings) = SumRetained(response, max_results)

C3_OneOutcome == [][C3_OneOutcomeStep]_vars /\ []C3_Count

\* C3 witness: a finished call with a file and a warning from a response of two
\* providers, one of them cut by the cap.
C3_Witness ==
    /\ pc = "saved"
    /\ Len(response) = 2
    /\ files # <<>>
    /\ warnings # <<>>
    /\ \E k \in 1..2 : response[k].n > max_results

\* The scenario of C8: cap 2, CIF, provider p1 with 3 records then provider p2 with
\* 0 records, every retained record converted and written.
C8_Scenario ==
    /\ pc = "saved"
    /\ max_results = 2
    /\ as_cif
    /\ Len(response) = 2
    /\ response[1].url = UrlP1 /\ response[1].n = 3
    /\ response[2].url = UrlP2 /\ response[2].n = 0
    /\ Failed(1) = 0

C8_Files == <<FilePath(output_folder, UrlP1, 0, "cif"),
              FilePath(output_folder, UrlP1, 1, "cif")>>

EnvelopeFields == {"output_dir", "files", "providers_used", "filter", "warnings"}

\* The invocation is over: the tool returned or an exception left it.
Ended == pc \in {"returned", "raised"}

\* C4: every tool returns a result value for every input and every collaborator
\* failure; no exception propagates out of a tool.
C4_NeverRaises == pc # "raised"

\* The input makes the tool fail before the query: raw filter empty after
\* trimming, advanced request failing validation, formula that cannot be
\* normalised into a filter.
PreQueryFailure ==
    \/ tool = "raw" /\ Strip(input.filter) = <<>>
    \/ tool = "advanced" /\ ~input.valid
    \/ tool \in {"formula", "mp_formula"} /\ ~Parseable(input.formula)

\* C5: on any pre-query failure the tool returns at once an envelope with empty
\* output directory, empty files and exactly one warning (for the raw filter, the
\* "empty filter" one), makes no call to the query client and creates no output
\* directory.
C5_PreQueryEnvelope ==
    (PreQueryFailure /\ pc # "called") =>
        /\ pc = "returned"
        /\ result.kind = "dict"
        /\ DOMAIN result.value = EnvelopeFields
        /\ result.value.output_dir = EmptyPath
        /\ result.value.files = <<>>
        /\ Len(result.value.warnings) = 1
        /\ tool = "raw" => result.value.warnings[1].text = "[raw] empty filter string"
        /\ calls = <<>>
        /\ dirs = {}

\* The part of C5 that the raw-filter and advanced tools cover.
C5_RawAndAdvanced == tool \in {"raw", "advanced"} => C5_PreQueryEnvelope

\* The query client was called and raised.
QueryFailed == Ended /\ Len(calls) = 1 /\ output_folder = EmptyPath

RequestedSorted ==
    IF providers = None THEN Sorted(DEFAULT_PROVIDERS, ProviderOrder)
    ELSE IF providers.list = <<>> THEN Sorted(DEFAULT_PROVIDERS, ProviderOrder)
    ELSE Sorted(ToSet(providers.list), ProviderOrder)

Materialized == pc = "returned" /\ tool \in SaveTools /\ output_folder # EmptyPath

NoDuplicates(seq) == \A a, b \in 1..Len(seq) : seq[a] = seq[b] => a = b

\* Fields of the manifest that hold none of filter, providers, files, warnings,
\* format and cap: where a file count would be.
OtherManifestFields ==
    DOMAIN manifest \ {"filter", "providers_requested", "providers_seen", "files",
                       "warnings", "format", "max_results_per_provider"}

C10_EmptyElementsNoCall ==
    (\/ tool \in {"elements", "mp_elements"} /\ input.elements = <<>>
     \/ /\ tool = "advanced"
        /\ input.valid
        /\ input.elements_all = <<>>
        /\ input.elements_any = <<>>
        /\ input.elements_only = <<>>)
    => calls = <<>>

\* ------------------------------------------- claims on the filter-building functions
Applied(fn) == pc = "fn_done" /\ tool = fn

\* The text holds an empty parenthesised operand "()".
HasEmptyOperand(text) ==
    \E k \in 1..(Len(text) - 1) : text[k] = "(" /\ text[k + 1] = ")"

\* C11: build_provider_filters(base, map) maps every provider whose clause c is
\* non-empty after trimming to exactly "(base) AND (c)" (both trimmed) when the
\* trimmed base is non-empty and to the trimmed c alone otherwise; providers whose
\* clause is empty or whitespace-only are absent; no value of the result is the
\* empty string or contains an empty operand "()".
C11_CombineClauses ==
    Applied("build_provider_filters") =>
        LET b == TrimmedBase(input.base)
            map == input.provider_map
            out == result.value
        IN  /\ result.kind = "dict"
            /\ DOMAIN out \subseteq DOMAIN map
            /\ \A p \in DOMAIN map :
                  LET c == Strip(map[p])
                  IN  IF c = <<>> THEN p \notin DOMAIN out
                      ELSE /\ p \in DOMAIN out
                           /\ out[p] = IF b # <<>>
                                       THEN <<"(">> \o b \o <<")", " AND ", "(">> \o c
                                            \o <<")">>
                                       ELSE c
            /\ \A p \in DOMAIN out : out[p] # <<>> /\ ~HasEmptyOperand(out[p])

\* C11 witness: with an empty (whitespace-only) base and the clauses " c=2 " and
\* "" the result holds the one clause "c=2".
C11_Witness ==
    /\ Applied("build_provider_filters")
    /\ input.base = [text |-> <<" ">>]
    /\ DOMAIN input.provider_map = {"oqmd", "zz"}
    /\ input.provider_map["oqmd"] = <<" ", "c", "=", "2", " ">>
    /\ input.provider_map["zz"] = <<>>
    /\ DOMAIN result.value = {"oqmd"}
    /\ result.value["oqmd"] = <<"c", "=", "2">>

\* C12 as stated: combining degrades to the non-empty side unchanged:
\* combine(base, {}) returns base, combine("", {p: c}) returns c for p, and a
\* non-empty base with an empty clause for p gives base for p.
C12_DegradesToNonEmptySide ==
    Applied("build_provider_filters") =>
        LET b == TrimmedBase(input.base)
            map == input.provider_map
            out == result.value
        IN  /\ DOMAIN map = {} => result = TextResult(b)
            /\ \A p \in DOMAIN map :
                  /\ (b = <<>> /\ Strip(map[p]) # <<>>) =>
                        p \in DOMAIN out /\ out[p] = Strip(map[p])
                  /\ (b # <<>> /\ Strip(map[p]) = <<>>) =>
                        p \in DOMAIN out /\ out[p] = b

\* C12 amended: build_provider_filters(base, {}) returns the empty mapping, whatever
\* the base; with an empty base a provider with a non-empty clause c gets c trimmed;
\* a provider whose clause is empty is left out of the result, with an empty base
\* and with a non-empty one (the base is not put in its place); the result never
\* holds an empty value.
C12_EmptySideOmitted ==
    Applied("build_provider_filters") =>
        LET b == TrimmedBase(input.base)
            map == input.provider_map
            out == result.value
        IN  /\ result.kind = "dict"
            /\ DOMAIN map = {} => DOMAIN out = {}
            /\ \A p \in DOMAIN map :
                  /\ (b = <<>> /\ Strip(map[p]) # <<>>) =>
                        p \in DOMAIN out /\ out[p] = Strip(map[p])
                  /\ Strip(map[p]) = <<>> => p \notin DOMAIN out
            /\ \A p \in DOMAIN out : out[p] # <<>>

\* C12 witness: with the base "a=1", an empty clause for one provider and the
\* clause "c=2" for the other, the result holds the second provider only.
C12_Witness ==
    /\ Applied("build_provider_filters")
    /\ TrimmedBase(input.base) = <<"a", "=", "1">>
    /\ DOMAIN input.provider_map = {"oqmd", "zz"}
    /\ input.provider_map["oqmd"] = <<" ", "\n">>
    /\ input.provider_map["zz"] = <<"c", "=", "2">>
    /\ DOMAIN result.value = {"zz"}

\* Providers whose space-group clause is written with the Hermann-Mauguin symbol.
SymbolBased == {"oqmd", "tcod", "cod"}

\* The providers the caller passed to get_bandgap_filter_map, an empty collection
\* counting as none passed.
BandgapAsked ==
    IF input.providers = None THEN DEFAULT_BG_PROVIDERS
    ELSE IF input.providers.list = <<>> THEN DEFAULT_BG_PROVIDERS
    ELSE ToSet(input.providers.list)

C14_SafeProviderName ==
    Applied("_provider_name_from_url") =>
        LET name == result.value
        IN  /\ name # <<>>
            /\ \A k \in 1..Len(name) : name[k] \notin {"/", "."}
            /\ name[1] # "_"
            /\ name[Len(name)] # "_"
            /\ input.url \in {<<>>, <<"/", "/">>} =>
                  name = <<"p", "r", "o", "v", "i", "d", "e", "r">>

\* The parts of C14 other than the dots: the name is non-empty, holds no '/', has no
\* leading or trailing underscore and is "provider" when nothing else remains.
C14_ExceptDots ==
    Applied("_provider_name_from_url") =>
        LET name == result.value
        IN  /\ name # <<>>
            /\ \A k \in 1..Len(name) : name[k] # "/"
            /\ name[1] # "_"
            /\ name[Len(name)] # "_"
            /\ input.url \in {<<>>, <<"/", "/">>} =>
                  name = <<"p", "r", "o", "v", "i", "d", "e", "r">>

\* C15: two invocations whose start timestamps differ or whose filter texts differ
\* never use the same output directory, for each of the tools by formula, by
\* elements, raw filter and advanced.
C15_DistinctFolders ==
    Applied("output_folder") =>
        ((\/ input.a.ts # input.b.ts
          \/ FilterOf(input.a.tool, input.a.arg) # FilterOf(input.b.tool, input.b.arg))
         => result.a # result.b)

\* C15 for the by-formula, by-elements and raw-filter tools only.
C15_OtherTools ==
    (Applied("output_folder") /\ input.a.tool # "advanced") => C15_DistinctFolders

\* C20: _to_tcod_format applied to its own output returns the same text, for every
\* short symbol built from letters, digits, '/', '-' and '_'; the output never has
\* two adjacent letters, a letter next to a digit or two consecutive spaces; and
\* 'Pm-3m', 'P4/mmm', 'Fd-3m' expand to 'P m -3 m', 'P 4/m m m', 'F d -3 m'.
C20_ExpansionIdempotent ==
    /\ (pc = "fn_again" /\ tool = "_to_tcod_format") => result.value = result.previous
    /\ (pc \in {"fn_done", "fn_again"} /\ tool = "_to_tcod_format") =>
          LET out == result.value
          IN  /\ \A k \in 1..(Len(out) - 1) :
                    /\ ~(IsLetter(out[k]) /\ IsLetter(out[k + 1]))
                    /\ ~(IsLetter(out[k]) /\ IsDigit(out[k + 1]))
                    /\ ~(IsDigit(out[k]) /\ IsLetter(out[k + 1]))
                    /\ ~(out[k] = " " /\ out[k + 1] = " ")
              /\ input.hm = <<"P", "m", "-", "3", "m">> =>
                    out = <<"P", " ", "m", " ", "-", "3", " ", "m">>
              /\ input.hm = <<"P", "4", "/", "m", "m", "m">> =>
                    out = <<"P", " ", "4", "/", "m", " ", "m", " ", "m">>
              /\ input.hm = <<"F", "d", "-", "3", "m">> =>
                    out = <<"F", " ", "d", " ", "-", "3", " ", "m">>
              /\ input.hm = <<"P", "2", "_", "1", "/", "c">> =>
                    out = <<"P", " ", "2", "_", "1", "/", "c">>

\* C20 witness: 'P4/mmm' has been expanded twice, to 'P 4/m m m' both times.
C20_Witness ==
    /\ pc = "fn_again"
    /\ tool = "_to_tcod_format"
    /\ input.hm = <<"P", "4", "/", "m", "m", "m">>
    /\ result.previous = <<"P", " ", "4", "/", "m", " ", "m", " ", "m">>
    /\ result.value = result.previous

\* ------------------------------------------------ the filter sent to the query
\* The filter text for the reduced composition TiO2.
FilterO2Ti == <<"chemical_formula_reduced=", "\"", "O", 2, "Ti", "\"">>

\* The formulas of the model that Composition parses all denote TiO2.
FormulaQueried == tool \in {"formula", "mp_formula"} /\ calls # <<>>

\* C16: the by-formula tools send chemical_formula_reduced="F" with F the canonical
\* reduced formula of the input: "TiO2", "O2Ti" and "Ti2O4" all give
\* chemical_formula_reduced="O2Ti".
C16_ReducedFormulaFilter == FormulaQueried => calls[1].filter = FilterO2Ti

\* What the by-formula tools do send: the Hill-ordered formula with the amounts of
\* the input, so "TiO2" and "O2Ti" give O2Ti and "Ti2O4" gives O4Ti2.
C16_HillOrderedAmounts ==
    FormulaQueried =>
        calls[1].filter =
            IF Amount(input.formula, "Ti") = 1 THEN FilterO2Ti
            ELSE <<"chemical_formula_reduced=", "\"", "O", Amount(input.formula, "O"),
                   "Ti", Amount(input.formula, "Ti"), "\"">>

\* Positions of a chunk in a text.
Positions(text, chunk) == {k \in 1..Len(text) : text[k] = chunk}

\* The symbol stands in the text exactly once, between double quotes.
QuotedOnce(text, symbol) ==
    /\ Cardinality(Positions(text, symbol)) = 1
    /\ \A k \in Positions(text, symbol) :
          k > 1 /\ k < Len(text) /\ text[k - 1] = "\"" /\ text[k + 1] = "\""

\* The element groups of an advanced request that are not empty, with their
\* operators, in the order ALL, ANY, ONLY.
GroupsGiven ==
    SelectSeq(<<[op |-> "HAS ALL", elements |-> input.elements_all],
                [op |-> "HAS ANY", elements |-> input.elements_any],
                [op |-> "HAS ONLY", elements |-> input.elements_only]>>,
              LAMBDA g : g.elements # <<>>)

\* The operators of the text, in the order they stand in it.
OperatorsIn(text) ==
    SelectSeq(text, LAMBDA chunk : chunk \in {"HAS ALL", "HAS ANY", "HAS ONLY"})

\* C17: for every element list E with at least one element (no symbol twice), the
\* ALL clause holds every symbol of E exactly once, double-quoted, under HAS ALL;
\* the ONLY clause for E differs from the ALL and the ANY clause for E; the
\* advanced tool joins its element groups with AND in the order ALL, ANY, ONLY.
C17_ElementClauses ==
    /\ (tool \in {"elements", "mp_elements"} /\ pc # "called" /\ input.elements # <<>>) =>
          /\ OperatorsIn(filter_str) = <<"HAS ALL">>
          /\ filter_str[1] = "elements "
          /\ \A k \in 1..Len(input.elements) : QuotedOnce(filter_str, input.elements[k])
    /\ (tool = "advanced" /\ pc \notin {"called"} /\ input.valid /\ GroupsGiven # <<>>) =>
          /\ OperatorsIn(filter_str) = [k \in 1..Len(GroupsGiven) |-> GroupsGiven[k].op]
          /\ Cardinality(Positions(filter_str, " AND ")) = Len(GroupsGiven) - 1
          /\ Len(GroupsGiven) = 1 =>
                \A k \in 1..Len(GroupsGiven[1].elements) :
                    QuotedOnce(filter_str, GroupsGiven[1].elements[k])
    /\ \A E \in ElementLists \ {<<>>} :
          /\ ElementClause("HAS ONLY", E) # ElementClause("HAS ALL", E)
          /\ ElementClause("HAS ONLY", E) # ElementClause("HAS ANY", E)

\* C17 witness: the advanced tool has queried with the three groups given, its
\* filter holding HAS ALL, HAS ANY, HAS ONLY in this order, joined by two ANDs.
C17_Witness ==
    /\ tool = "advanced"
    /\ calls # <<>>
    /\ Len(GroupsGiven) = 3
    /\ OperatorsIn(calls[1].filter) = <<"HAS ALL", "HAS ANY", "HAS ONLY">>
    /\ Cardinality(Positions(calls[1].filter, " AND ")) = 2

\* A tool that takes a providers argument has called the query client.
QueriedWithProviders == tool \in SaveTools /\ calls # <<>>

Handled(k) ==
    IF k < Len(response) \/ pc = "saved" THEN Retained(response[k].n, max_results)
    ELSE idx

FileIndices(k) == {files[j][3] : j \in (response[k].f0 + 1)..FilesEnd(k)}
WarningIndices(k) == {warnings[j].index : j \in (response[k].w0 + 1)..WarningsEnd(k)}

\* C19: the file written for the record at 0-based position i of a provider's
\* record list is {providerName}_{i}.{ext}, ext being cif or json by the format;
\* the provider's paths stand in files with strictly increasing index; the index
\* of a failed record is skipped, not reused.
C19_IndexedInOrder ==
    pc \in {"save_loop", "saved"} =>
        \A k \in 1..Len(response) :
            /\ \A j \in (response[k].f0 + 1)..FilesEnd(k) :
                  /\ files[j][1] = output_folder
                  /\ files[j][2] = EntryName(k)
                  /\ files[j][4] = (IF as_cif THEN "cif" ELSE "json")
                  /\ \A m \in (j + 1)..FilesEnd(k) : files[j][3] < files[m][3]
            /\ \A j \in (response[k].w0 + 1)..WarningsEnd(k) :
                  \A m \in (j + 1)..WarningsEnd(k) : warnings[j].index < warnings[m].index
            /\ FileIndices(k) \cap WarningIndices(k) = {}
            /\ FileIndices(k) \cup WarningIndices(k) = 0..(Handled(k) - 1)

\* C19 witness: a finished JSON call in which record 0 of a provider failed and its
\* record 1 was written as {providerName}_1.json.
C19_Witness ==
    /\ pc = "saved"
    /\ ~as_cif
    /\ \E k \in 1..Len(response) :
          /\ Written(k) = 1
          /\ Failed(k) = 1
          /\ files[FilesEnd(k)] = <<output_folder, EntryName(k), 1, "json">>
          /\ warnings[WarningsEnd(k)].index = 0

\* ------------------------------------------------------ the query and the files
\* C21: an invocation calls the query client at most once, and the output
\* directory is created and files (the manifest included) are written only after
\* that call has returned successfully: nothing is written before the query
\* returns, nor after it raised.
C21_SingleCallThenWrites ==
    /\ Len(calls) <= 1
    /\ pc \in {"called", "query"} => dirs = {} /\ disk = {} /\ manifest = None
    /\ (dirs # {} \/ disk # {} \/ manifest # None) =>
          /\ Len(calls) = 1
          /\ output_folder # EmptyPath
          /\ pc \notin {"called", "query"}
    /\ (Ended /\ output_folder = EmptyPath) => dirs = {} /\ disk = {} /\ manifest = None

\* C21 witness: a tool has returned after one query call and a file written in
\* the directory it created.
C21_Witness ==
    /\ pc = "returned"
    /\ tool \in SaveTools
    /\ Len(calls) = 1
    /\ dirs = {output_folder}
    /\ disk # {}

\* C22: within one save_structures call the paths of the returned files list are
\* pairwise distinct, for every response, also when two provider URLs sanitise to
\* the same name or one URL stands under two filter keys.
C22_DistinctPaths == NoDuplicates(files)

\* What does hold: the paths are pairwise distinct when the provider entries of the
\* response have pairwise distinct sanitised names.
C22_DistinctForDistinctNames ==
    (\A a, b \in 1..Len(response) : EntryName(a) = EntryName(b) => a = b)
        => NoDuplicates(files)

\* The paths reported as saved by the invocation.
SavedPaths ==
    IF tool \in MpTools
    THEN {files[k].path : k \in {j \in 1..Len(files) : "path" \in DOMAIN files[j]}}
    ELSE ToSet(files)

\* C23: after the call returns, a file exists at a record's target path only if
\* the record was reported as saved; a record whose CIF conversion raises or
\* yields nothing leaves no file, not even an empty one, in the save_structures
\* pipeline and in the tools of src/server.py.
C23_NoFileUnlessSaved ==
    /\ pc = "returned" => disk \subseteq SavedPaths
    /\ (last # None /\ last.conv \in {"raise", "empty", "blank"}) => last.path \notin disk

\* C23 for the tools that write through save_structures, whose response here has
\* one provider entry.
C23_SavePipeline == tool \in SaveTools => C23_NoFileUnlessSaved

====
